---- MODULE Spec2Model ----
(***************************************************************************)
(* AI Investor Daily: the newsletter pipeline of the generator script      *)
(* (feed collection, paywall check, article fetch, ticker extraction,      *)
(* quote lookup, ranking and selection), and the run of index.js (stock    *)
(* data, selectTop5, the newsletter file and the subscriber list).         *)
(*                                                                         *)
(* Text is modelled as TLA+ strings, read character by character with      *)
(* Len, SubSeq and \o.  A JavaScript value that may be undefined is the    *)
(* record [t |-> "num", v |-> n] or [t |-> "undef", v |-> 0].              *)
(***************************************************************************)
EXTENDS Integers, Sequences, FiniteSets, TLC

VARIABLES
    pc,               \* position of main: "rss", "items", "rank", "followup", "done"
    clock,            \* the wall clock read by new Date()
    feedIdx,          \* fetchRSSItems: index of the next feed of FEEDS
    items,            \* fetchRSSItems: the items collected (main: the list returned)
    itemIdx,          \* main: index of the next item
    paywallLog,       \* main: per item, what its paywall check did
    candidates,       \* main: the stock candidates collected
    relevantArticles, \* main: the articles without extracted symbols
    candIdx,          \* rankStocks: number of candidates consumed so far
    ranked,           \* rankStocks: the ranked entries, in push order, sorted on return
    fetchedQuotes,    \* rankStocks: the quote cache (a Map symbol -> quote)
    fetchCount,       \* number of fetchQuote calls made per symbol in this run
    topPicks,         \* the list rankStocks returned
    validTopPicks,    \* main: the picks handed to generateNewsletterHTML
    ratingCalls,      \* rankStocks: the symbols whose ratings and sentiment were looked up
    inputText,        \* extractSymbols: the text it is called with
    filteredSymbols,  \* extractSymbols: the list it returned
    ipc,              \* index.js: position of its run
    articles,         \* index.js: what fetchFreeArticles returned
    tickerIdx,        \* fetchStockData: number of tickers handled so far
    stockData,        \* fetchStockData: the picks collected
    chosenPicks,      \* index.js: what selectTop5 returned
    htmlFile,         \* index.js: the newsletter file output/daily-email-<date>.html
    sheetRead,        \* getEmailList: how the read of the sheet went
    emails,           \* index.js: what getEmailList returned
    recipientsFile,   \* index.js: the file output/recipients.txt
    fatalError,       \* index.js: the error its catch block logged ("none": nothing caught)
    exitCode          \* index.js: the exit code of the process (-1 while running)

\* the state of extractSymbols called on its own
symVars == <<inputText, filteredSymbols>>

\* the state of the run of index.js
indexVars == <<ipc, articles, tickerIdx, stockData, chosenPicks, htmlFile, sheetRead,
               emails, recipientsFile, fatalError, exitCode>>

vars == <<pc, clock, feedIdx, items, itemIdx, paywallLog, candidates,
          relevantArticles, candIdx, ranked, fetchedQuotes, fetchCount,
          topPicks, validTopPicks, ratingCalls, symVars, indexVars>>

----------------------------------------------------------------------------
(* Strings *)

Min(a, b) == IF a < b THEN a ELSE b

\* String.prototype.toLowerCase on one character
LowerChar(c) ==
    CASE c = "A" -> "a" [] c = "B" -> "b" [] c = "C" -> "c" [] c = "D" -> "d"
      [] c = "E" -> "e" [] c = "F" -> "f" [] c = "G" -> "g" [] c = "H" -> "h"
      [] c = "I" -> "i" [] c = "J" -> "j" [] c = "K" -> "k" [] c = "L" -> "l"
      [] c = "M" -> "m" [] c = "N" -> "n" [] c = "O" -> "o" [] c = "P" -> "p"
      [] c = "Q" -> "q" [] c = "R" -> "r" [] c = "S" -> "s" [] c = "T" -> "t"
      [] c = "U" -> "u" [] c = "V" -> "v" [] c = "W" -> "w" [] c = "X" -> "x"
      [] c = "Y" -> "y" [] c = "Z" -> "z" [] OTHER -> c

RECURSIVE ToLowerCase(_)
ToLowerCase(s) ==
    IF Len(s) = 0 THEN ""
    ELSE LowerChar(SubSeq(s, 1, 1)) \o ToLowerCase(SubSeq(s, 2, Len(s)))

\* String.prototype.toUpperCase on one character
UpperChar(c) ==
    CASE c = "a" -> "A" [] c = "b" -> "B" [] c = "c" -> "C" [] c = "d" -> "D"
      [] c = "e" -> "E" [] c = "f" -> "F" [] c = "g" -> "G" [] c = "h" -> "H"
      [] c = "i" -> "I" [] c = "j" -> "J" [] c = "k" -> "K" [] c = "l" -> "L"
      [] c = "m" -> "M" [] c = "n" -> "N" [] c = "o" -> "O" [] c = "p" -> "P"
      [] c = "q" -> "Q" [] c = "r" -> "R" [] c = "s" -> "S" [] c = "t" -> "T"
      [] c = "u" -> "U" [] c = "v" -> "V" [] c = "w" -> "W" [] c = "x" -> "X"
      [] c = "y" -> "Y" [] c = "z" -> "Z" [] OTHER -> c

RECURSIVE ToUpperCase(_)
ToUpperCase(s) ==
    IF Len(s) = 0 THEN ""
    ELSE UpperChar(SubSeq(s, 1, 1)) \o ToUpperCase(SubSeq(s, 2, Len(s)))

\* s[i] as a one-character string, "" past the end
CharAt(s, i) == IF i >= 1 /\ i <= Len(s) THEN SubSeq(s, i, i) ELSE ""

UpperLetters ==
    {"A", "B", "C", "D", "E", "F", "G", "H", "I", "J", "K", "L", "M",
     "N", "O", "P", "Q", "R", "S", "T", "U", "V", "W", "X", "Y", "Z"}

\* the regular expression class [A-Z]
IsUpper(c) == c \in UpperLetters

\* the regular expression class \w
IsWordChar(c) ==
    \/ c \in UpperLetters
    \/ c \in {LowerChar(u) : u \in UpperLetters}
    \/ c \in {"0", "1", "2", "3", "4", "5", "6", "7", "8", "9", "_"}

\* String.prototype.includes: k occurs in s as a substring
Includes(s, k) ==
    \E i \in 1..(Len(s) - Len(k) + 1) : SubSeq(s, i, i + Len(k) - 1) = k

\* String.prototype.slice(0, n)
SliceTo(s, n) == SubSeq(s, 1, Min(Len(s), n))

----------------------------------------------------------------------------
(* Configuration *)

KEYWORDS ==
    <<"AI", "artificial intelligence", "machine learning", "LLM",
      "large language model", "GPT", "Claude", "Copilot", "chatbot",
      "neural", "deep learning">>

IGNORE_KEYWORDS ==
    <<"podcast", "jobs", "careers", "opinion", "editorial", "review",
      "security vulnerability", "hacker", "malware">>

MAX_ARTICLES_PER_FEED == 10

SMALL_CAP_MIN == 50000000

SMALL_CAP_MAX == 2000000000

DESIRED_SMALL_CAP_COUNT == 3

\* the number of feeds of FEEDS that the model runs through
NumFeeds == 2

\* the time new Date() reads when the run starts
ClockStart == 100

----------------------------------------------------------------------------
(* matchesKeywords *)

\* KEYWORDS.some(k => t.includes(k.toLowerCase()))
HasKeyword(t) == \E i \in DOMAIN KEYWORDS : Includes(t, ToLowerCase(KEYWORDS[i]))

\* IGNORE_KEYWORDS.some(k => t.includes(k.toLowerCase()))
HasIgnore(t) ==
    \E i \in DOMAIN IGNORE_KEYWORDS : Includes(t, ToLowerCase(IGNORE_KEYWORDS[i]))

\* the empty string stands for every falsy text (undefined, null, '')
matchesKeywords(text) ==
    IF text = "" THEN FALSE
    ELSE LET t == ToLowerCase(text)
         IN  IF ~HasKeyword(t) THEN FALSE ELSE ~HasIgnore(t)

----------------------------------------------------------------------------
(* JavaScript values *)

Num(n) == [t |-> "num", v |-> n]

Undefined == [t |-> "undef", v |-> 0]

\* ToBoolean of a number that may be undefined: undefined and 0 are falsy
Truthy(x) == x.t = "num" /\ x.v # 0

\* x || 0
OrZero(x) == IF Truthy(x) THEN x.v ELSE 0

----------------------------------------------------------------------------
(* fetchRSSItems *)

\* The items the feeds of the model can deliver.  pubDate is the feed's raw
\* field: absent ("undef"), a string Date cannot parse ("bad"), or a date
\* string whose time is v ("ok").
RawAcme ==
    [title |-> "New LLM from Acme Corp (ACME) launches",
     contentSnippet |-> "Acme Corp unveils model", content |-> "",
     link |-> "u1", guid |-> "", pubDate |-> [t |-> "ok", v |-> 50]]

RawSports ==
    [title |-> "Sports roundup",
     contentSnippet |-> "Scores and more", content |-> "",
     link |-> "u2", guid |-> "", pubDate |-> [t |-> "ok", v |-> 60]]

RawPodcast ==
    [title |-> "AI chip news",
     contentSnippet |-> "listen to our podcast", content |-> "",
     link |-> "u3", guid |-> "", pubDate |-> [t |-> "undef", v |-> 0]]

RawNeural ==
    [title |-> "Acme neural chip",
     contentSnippet |-> "", content |-> "ACME and AIQ ship neural chips",
     link |-> "", guid |-> "u4", pubDate |-> [t |-> "bad", v |-> 0]]

\* what parser.parseURL(feed) can do: throw, or deliver a feed
FeedResults ==
    { [ok |-> FALSE, items |-> << >>],
      [ok |-> TRUE, items |-> <<RawAcme, RawSports>>],
      [ok |-> TRUE, items |-> <<RawPodcast, RawNeural>>] }

\* a || b on strings
OrStr(a, b) == IF a # "" THEN a ELSE b

\* Array.prototype.filter
RECURSIVE FilterSeq(_, _)
FilterSeq(s, keep) ==
    IF s = << >> THEN << >>
    ELSE IF keep[Head(s)] THEN <<Head(s)>> \o FilterSeq(Tail(s), keep)
         ELSE FilterSeq(Tail(s), keep)

\* it => matchesKeywords(it.title) || matchesKeywords(it.contentSnippet || it.content)
PassesFilter(it) ==
    matchesKeywords(it.title) \/ matchesKeywords(OrStr(it.contentSnippet, it.content))

\* it.pubDate ? new Date(it.pubDate) : new Date()
\* new Date of an unparseable string is an Invalid Date, whose getTime() is NaN
NewDate(raw, now) ==
    IF raw.t = "undef" THEN [t |-> "time", v |-> now]
    ELSE IF raw.t = "bad" THEN [t |-> "nan", v |-> 0]
    ELSE [t |-> "time", v |-> raw.v]

\* the object pushed for one feed item
ToItem(it, now) ==
    [title |-> it.title,
     link |-> OrStr(it.link, it.guid),
     pubDate |-> NewDate(it.pubDate, now),
     contentSnippet |-> it.contentSnippet]

\* d?.getTime() || 0 : NaN is falsy
TimeKey(d) == IF d.t = "nan" THEN 0 ELSE d.v

\* stable insertion of x into a list sorted by descending TimeKey
RECURSIVE InsertByDate(_, _)
InsertByDate(s, x) ==
    IF s = << >> THEN <<x>>
    ELSE IF TimeKey(Head(s).pubDate) < TimeKey(x.pubDate) THEN <<x>> \o s
         ELSE <<Head(s)>> \o InsertByDate(Tail(s), x)

\* items.sort((a, b) => (b.pubDate?.getTime() || 0) - (a.pubDate?.getTime() || 0))
RECURSIVE SortByDate(_)
SortByDate(s) ==
    IF s = << >> THEN << >>
    ELSE InsertByDate(SortByDate(SubSeq(s, 1, Len(s) - 1)), s[Len(s)])

\* the relevant items of one delivered feed, as pushed
FeedItems(f, now) ==
    LET keep == [it \in {f[i] : i \in DOMAIN f} |-> PassesFilter(it)]
        relevantItems == SubSeq(FilterSeq(f, keep), 1,
                                Min(Len(FilterSeq(f, keep)), MAX_ARTICLES_PER_FEED))
    IN  [i \in DOMAIN relevantItems |-> ToItem(relevantItems[i], now)]

\* one iteration of the loop over FEEDS
FetchFeed ==
    /\ pc = "rss"
    /\ feedIdx <= NumFeeds
    /\ \E f \in FeedResults :
          items' = IF f.ok THEN items \o FeedItems(f.items, clock) ELSE items
    /\ feedIdx' = feedIdx + 1
    /\ clock' = clock + 1
    /\ UNCHANGED <<pc, itemIdx, paywallLog, candidates, relevantArticles,
                   candIdx, ranked, fetchedQuotes, fetchCount, topPicks,
                   validTopPicks>>
    /\ UNCHANGED <<ratingCalls, symVars, indexVars>>

\* after the loop: sort by date and return to main
RSSReturn ==
    /\ pc = "rss"
    /\ feedIdx > NumFeeds
    /\ items' = SortByDate(items)
    /\ pc' = "items"
    /\ UNCHANGED <<clock, feedIdx, itemIdx, paywallLog, candidates,
                   relevantArticles, candIdx, ranked, fetchedQuotes,
                   fetchCount, topPicks, validTopPicks>>
    /\ UNCHANGED <<ratingCalls, symVars, indexVars>>

----------------------------------------------------------------------------
(* isLikelyPaywalled *)

paywallHints ==
    <<"subscribe", "sign in to continue", "full article is for subscribers",
      "to continue reading", "please subscribe", "log in to view",
      "become a member", "subscription required", "metered paywall">>

\* What axios.get plus cheerio.load of the article page can give: a failure
\* (ok = FALSE: the request or the parse threw), or the joined paragraph
\* text and whether one of the paywall container selectors matched.
PageResults ==
    { [ok |-> FALSE, text |-> "", paywallSelector |-> FALSE],
      [ok |-> TRUE, text |-> "Please subscribe to read on", paywallSelector |-> FALSE],
      [ok |-> TRUE, text |-> "Chips. Continue reading", paywallSelector |-> FALSE],
      [ok |-> TRUE, text |-> "Acme ships chips", paywallSelector |-> TRUE],
      [ok |-> TRUE, text |-> "Acme ships chips", paywallSelector |-> FALSE] }

PaywallFailOpen(page) ==
    /\ page.ok
    /\ LET text == ToLowerCase(SliceTo(page.text, 4000))
       IN  \/ \E i \in DOMAIN paywallHints : Includes(text, paywallHints[i])
           \/ page.paywallSelector
           \/ Len(text) < 200 /\ Includes(text, "continue reading")

isLikelyPaywalled(page) ==
    IF ~page.ok THEN TRUE
    ELSE LET text == ToLowerCase(SliceTo(page.text, 4000))
         IN  \/ \E i \in DOMAIN paywallHints : Includes(text, paywallHints[i])
             \/ page.paywallSelector
             \/ Len(text) < 200 /\ Includes(text, "continue reading")

----------------------------------------------------------------------------
(* extractSymbols *)

\* Array.prototype.includes on KEYWORDS: an exact, case-sensitive match
KeywordsInclude(x) == \E i \in DOMAIN KEYWORDS : KEYWORDS[i] = x

\* Set.prototype.add on a set kept in insertion order
SetAdd(set, x) ==
    IF \E i \in DOMAIN set : set[i] = x THEN set ELSE Append(set, x)

\* the number of [A-Z] characters of text from position p on, at most max
RECURSIVE UpperRun(_, _, _)
UpperRun(text, p, max) ==
    IF max = 0 \/ ~IsUpper(CharAt(text, p)) THEN 0
    ELSE 1 + UpperRun(text, p + 1, max - 1)

\* the number of spaces of text from position p on
RECURSIVE SpaceRun(_, _)
SpaceRun(text, p) ==
    IF CharAt(text, p) # " " THEN 0 ELSE 1 + SpaceRun(text, p + 1)

\* \$?([A-Z]{1,5})\)?\b tried at position p: the length matched (0: no
\* match) and the capture.  Fewer letters than the greedy run never help:
\* the character after them is then a letter, and \b fails.
MatchDollar(text, p) ==
    LET d == IF CharAt(text, p) = "$" THEN 1 ELSE 0
        n == UpperRun(text, p + d, 5)
        q == p + d + n
        sym == SubSeq(text, p + d, q - 1)
    IN  IF n = 0 THEN [len |-> 0, sym |-> ""]
        ELSE IF CharAt(text, q) = ")"
             THEN IF IsWordChar(CharAt(text, q + 1))
                  THEN [len |-> d + n + 1, sym |-> sym]
                  ELSE [len |-> d + n, sym |-> sym]
        ELSE IF IsWordChar(CharAt(text, q)) THEN [len |-> 0, sym |-> ""]
        ELSE [len |-> d + n, sym |-> sym]

\* \( *([A-Z]{1,5}) *\) tried at position p
MatchParen(text, p) ==
    LET a == p + 1 + SpaceRun(text, p + 1)
        n == UpperRun(text, a, 5)
        b == a + n + SpaceRun(text, a + n)
    IN  IF CharAt(text, p) = "(" /\ n > 0 /\ CharAt(text, b) = ")"
        THEN [len |-> b - p + 1, sym |-> SubSeq(text, a, a + n - 1)]
        ELSE [len |-> 0, sym |-> ""]

\* the alternation, first alternative first
MatchAt(text, p) ==
    IF MatchDollar(text, p).len > 0 THEN MatchDollar(text, p)
    ELSE MatchParen(text, p)

\* the while loop over tickerRegex.exec(text), from lastIndex p - 1
RECURSIVE TickerScan(_, _, _)
TickerScan(text, p, set) ==
    IF p > Len(text) THEN set
    ELSE LET m == MatchAt(text, p)
             symbol == ToUpperCase(m.sym)
         IN  IF m.len = 0 THEN TickerScan(text, p + 1, set)
             ELSE IF Len(symbol) > 1 /\ Len(symbol) <= 5
                     /\ ~KeywordsInclude(ToLowerCase(symbol))
                  THEN TickerScan(text, p + m.len, SetAdd(set, symbol))
                  ELSE TickerScan(text, p + m.len, set)

\* the forEach over the matches of the compromise pattern, given their texts
RECURSIVE NlpRule(_, _)
NlpRule(matches, set) ==
    IF matches = << >> THEN set
    ELSE LET potential == ToUpperCase(Head(matches))
         IN  IF Len(potential) >= 1 /\ Len(potential) <= 5
                /\ ~KeywordsInclude(ToLowerCase(potential))
             THEN NlpRule(Tail(matches), SetAdd(set, potential))
             ELSE NlpRule(Tail(matches), set)

StopWords ==
    {"AI", "ML", "LLM", "GPT", "COM", "NET", "ORG", "CO", "INC", "LTD",
     "INC.", "LTD.", "AI.", "ML."}

\* extractSymbols without its last filter: the potential symbols as collected
extractSymbolsUnfiltered(text, matches) ==
    IF text = "" THEN << >>
    ELSE TickerScan(text, 1, NlpRule(matches, << >>))

\* extractSymbols(text), where matches are the texts of the spans
\* doc.match(...) found in text, in order
extractSymbols(text, matches) ==
    IF text = "" THEN << >>
    ELSE LET potentialSymbols == TickerScan(text, 1, NlpRule(matches, << >>))
             keep == [x \in {potentialSymbols[i] : i \in DOMAIN potentialSymbols}
                        |-> x \notin StopWords /\ Len(x) > 1]
         IN  FilterSeq(potentialSymbols, keep)

\* The spans the compromise tagger may report as (#UpperCase | #ProperNoun)
\* matches: the library is not part of the repository, so which of the
\* capitalised spans of the text it reports is left open.
NlpSpans == {"Acme", "Inc.", "AI.", "Xy Co"}

NlpMatches(text) ==
    {<< >>} \cup {<<x>> : x \in {y \in NlpSpans : Includes(text, y)}}

----------------------------------------------------------------------------
(* fetchArticleText, and the item loop of main *)

\* What fetchArticleText(link) can return: '' (the request failed, or the
\* page holds no paragraph), or the cleaned text of the page behind link.
ArticleTexts(link) ==
    IF link = "u1" THEN {"", "Acme Corp launched strong GPT tools"}
    ELSE IF link = "u4"
         THEN {"", "ACME and AIQ ship neural chips", "the new chips are neural"}
    ELSE {"", "Chips are here"}

\* the candidate pushed for one extracted symbol
Candidate(symbol, item, articleText) ==
    [symbol |-> symbol, title |-> item.title, link |-> item.link,
     articleText |-> articleText]

\* what is logged for the page request of the paywall check: it failed
\* (the request or the parse threw), or it succeeded and the check said
\* "paywalled" or "clear"
PageOutcome(page) ==
    IF ~page.ok THEN "failed"
    ELSE IF isLikelyPaywalled(page) THEN "paywalled" ELSE "clear"

\* one iteration of the loop over items
ProcessItem ==
    /\ pc = "items"
    /\ itemIdx <= Len(items)
    /\ LET item == items[itemIdx]
           combinedText == item.title \o " " \o item.contentSnippet
       IN  IF item.link = "" \/ ~matchesKeywords(combinedText)
           THEN /\ paywallLog' = Append(paywallLog, "unchecked")
                /\ UNCHANGED <<candidates, relevantArticles>>
           ELSE \E page \in PageResults :
                  IF isLikelyPaywalled(page)
                  THEN /\ paywallLog' = Append(paywallLog, PageOutcome(page))
                       /\ UNCHANGED <<candidates, relevantArticles>>
                  ELSE /\ paywallLog' = Append(paywallLog, PageOutcome(page))
                       /\ \E articleText \in ArticleTexts(item.link) :
                            IF articleText = ""
                            THEN UNCHANGED <<candidates, relevantArticles>>
                            ELSE \E matches \in NlpMatches(item.title \o " " \o articleText) :
                                   LET symbols == extractSymbols(
                                           item.title \o " " \o articleText, matches)
                                   IN  IF Len(symbols) > 0
                                       THEN /\ candidates' = candidates \o
                                                 [i \in DOMAIN symbols |->
                                                    Candidate(symbols[i], item, articleText)]
                                            /\ UNCHANGED relevantArticles
                                       ELSE /\ relevantArticles' =
                                                 Append(relevantArticles, item)
                                            /\ UNCHANGED candidates
    /\ itemIdx' = itemIdx + 1
    /\ UNCHANGED <<pc, clock, feedIdx, items, candIdx, ranked, fetchedQuotes,
                   fetchCount, topPicks, validTopPicks>>
    /\ UNCHANGED <<ratingCalls, symVars, indexVars>>

\* after the loop: main calls rankStocks(candidates)
CallRankStocks ==
    /\ pc = "items"
    /\ itemIdx > Len(items)
    /\ pc' = "rank"
    /\ UNCHANGED <<clock, feedIdx, items, itemIdx, paywallLog, candidates,
                   relevantArticles, candIdx, ranked, fetchedQuotes,
                   fetchCount, topPicks, validTopPicks>>
    /\ UNCHANGED <<ratingCalls, symVars, indexVars>>

----------------------------------------------------------------------------
(* fetchQuote, fetchAnalystRatings, analyzeNewsSentiment *)

\* fetchQuote returns null (found = FALSE: unknown symbol or provider
\* error) or the provider's quote object
NullQuote ==
    [found |-> FALSE, regularMarketPrice |-> Undefined, marketCap |-> Undefined,
     regularMarketChangePercent |-> Undefined]

Quote(price, cap, change) ==
    [found |-> TRUE, regularMarketPrice |-> price, marketCap |-> cap,
     regularMarketChangePercent |-> change]

\* what one call of fetchQuote(symbol) can return
QuoteResults(symbol) ==
    IF symbol = "ACME"
    THEN { NullQuote,
           Quote(Num(10), Num(500000000), Num(2)),
           Quote(Num(0 - 1), Num(2000000000), Num(0 - 3)),
           Quote(Num(0), Num(500000000), Num(1)),
           Quote(Num(10), Num(49999999), Num(2)) }
    ELSE IF symbol = "AIQ"
    THEN { NullQuote,
           Quote(Num(25), Num(50000000), Num(4)),
           Quote(Num(200), Num(2000000001), Undefined),
           Quote(Undefined, Undefined, Undefined) }
    ELSE { NullQuote }

\* String.prototype.startsWith
StartsWith(s, prefix) ==
    Len(s) >= Len(prefix) /\ SubSeq(s, 1, Len(prefix)) = prefix

fetchAnalystRatings(symbol) ==
    IF StartsWith(symbol, "AI") \/ StartsWith(symbol, "ML") \/ StartsWith(symbol, "GEN")
    THEN [buy |-> 4, hold |-> 1, sell |-> 0]
    ELSE IF symbol \in {"GOOG", "MSFT", "NVDA", "AMZN", "META"}
    THEN [buy |-> 3, hold |-> 2, sell |-> 0]
    ELSE IF StartsWith(symbol, "CL") \/ StartsWith(symbol, "OC")
    THEN [buy |-> 2, hold |-> 3, sell |-> 1]
    ELSE [buy |-> 1, hold |-> 2, sell |-> 2]

positiveWords ==
    <<"buy", "strong", "growth", "innovative", "outperform", "leader",
      "success", "upgrade", "new tech", "launch", "profitable", "expand",
      "advance", "boost", "significant", "breakthrough", "optimistic">>

negativeWords ==
    <<"sell", "weak", "decline", "warning", "miss", "struggle", "downgrade",
      "delay", "problem", "concern", "halt", "reduce", "cut", "challenging",
      "risk", "volatile", "uncertainty", "unprofitable">>

\* (text.match(new RegExp(w, 'g')) || []).length from position p on
RECURSIVE CountMatches(_, _, _)
CountMatches(text, w, p) ==
    IF p + Len(w) - 1 > Len(text) THEN 0
    ELSE IF SubSeq(text, p, p + Len(w) - 1) = w
         THEN 1 + CountMatches(text, w, p + Len(w))
         ELSE CountMatches(text, w, p + 1)

RECURSIVE SumCounts(_, _, _)
SumCounts(text, words, i) ==
    IF i > Len(words) THEN 0
    ELSE CountMatches(text, words[i], 1) + SumCounts(text, words, i + 1)

\* doc.sentences().length: the texts of the model hold no sentence break
SentenceCount(text) == IF text = "" THEN 0 ELSE 1

\* analyzeNewsSentiment on a text that is no URL
TextSentiment(urlOrText) ==
    IF urlOrText = "" THEN 0
    ELSE LET text == SliceTo(ToLowerCase(urlOrText), 7000)
             score == SumCounts(text, positiveWords, 1)
                        - SumCounts(text, negativeWords, 1)
         IN  IF SentenceCount(text) > 0 THEN score \div SentenceCount(text) ELSE 0

\* what analyzeNewsSentiment can return for the provider's news page
\* (0: the request failed or the page holds no text)
NewsSentiments == {0, 2}

----------------------------------------------------------------------------
(* rankStocks *)

EmptyMap == [s \in {} |-> 0]

\* Map.prototype.get, with null for a missing key
MapGet(map, key) == IF key \in DOMAIN map THEN map[key] ELSE NullQuote

MapSet(map, key, value) ==
    [k \in DOMAIN map \cup {key} |-> IF k = key THEN value ELSE map[k]]

CountOf(counts, key) == IF key \in DOMAIN counts THEN counts[key] ELSE 0

\* quote.marketCap >= SMALL_CAP_RANGE.min && quote.marketCap <= SMALL_CAP_RANGE.max
IsSmallCap(quote) ==
    /\ quote.marketCap.t = "num"
    /\ quote.marketCap.v >= SMALL_CAP_MIN
    /\ quote.marketCap.v <= SMALL_CAP_MAX

\* KEYWORDS.some(k => title.toLowerCase().includes(k)
\*                    || (articleText || '').toLowerCase().includes(k))
IsAiRelated(candidate) ==
    LET title == ToLowerCase(candidate.title)
        articleText == ToLowerCase(candidate.articleText)
    IN  \E i \in DOMAIN KEYWORDS :
            Includes(title, KEYWORDS[i]) \/ Includes(articleText, KEYWORDS[i])

\* no candidate is skipped for its flags
FailsBothGatesNever(isSmallCap, isAiRelated) == FALSE

\* !isSmallCap && !isAiRelated
FailsBothGates(isSmallCap, isAiRelated) == ~isSmallCap /\ ~isAiRelated

\* !quote || !quote.regularMarketPrice
Unpriced(quote) == ~quote.found \/ ~Truthy(quote.regularMarketPrice)

\* the score with the sell ratings counted against the stock
ScoreWithSell(isSmallCap, isAiRelated, ratings, sentiment, quote) ==
    (IF isSmallCap THEN 40 ELSE 0) + (IF isAiRelated THEN 20 ELSE 0)
      + (ratings.buy * 15) + (ratings.hold * 3) - (ratings.sell * 5)
      + sentiment * 25
      + OrZero(quote.regularMarketChangePercent) * 4

Score(isSmallCap, isAiRelated, ratings, sentiment, quote) ==
    (IF isSmallCap THEN 40 ELSE 0) + (IF isAiRelated THEN 20 ELSE 0)
      + (ratings.buy * 15) + (ratings.hold * 3)
      + sentiment * 25
      + OrZero(quote.regularMarketChangePercent) * 4

\* The titles and article texts candidates of the model can carry.  The two
\* text analyses below are tabulated over them, so that the model checker
\* evaluates each once and not in every state.
RawItems == {RawAcme, RawSports, RawPodcast, RawNeural}

ModelArticles ==
    { [title |-> r.title, articleText |-> x] :
        r \in RawItems,
        x \in UNION {ArticleTexts(OrStr(q.link, q.guid)) : q \in RawItems} }

isAiRelatedOf == [a \in ModelArticles |-> IsAiRelated(a)]

textSentimentOf == [a \in ModelArticles |-> TextSentiment(a.articleText)]

\* the sentiment of a candidate, given what the analysis of the news page
\* returned: a zero is replaced by the sentiment of the article text
Sentiment(candidate, news) ==
    IF news = 0 /\ candidate.articleText # ""
    THEN textSentimentOf[[title |-> candidate.title,
                          articleText |-> candidate.articleText]]
    ELSE news

\* the entry pushed to ranked
RankedEntry(candidate, quote, isSmallCap, isAiRelated, news) ==
    LET ratings == fetchAnalystRatings(candidate.symbol)
        sentiment == Sentiment(candidate, news)
    IN  [symbol |-> candidate.symbol, title |-> candidate.title,
         link |-> candidate.link, articleText |-> candidate.articleText,
         quote |-> quote, ratings |-> ratings, sentiment |-> sentiment,
         score |-> Score(isSmallCap, isAiRelated, ratings, sentiment, quote),
         isSmallCap |-> isSmallCap, isAiRelated |-> isAiRelated]

\* the body of the loop of rankStocks for one candidate: fetched is what
\* fetchQuote returns if it is called, news what the analysis of the
\* provider's news page returns
RankCandidate(candidate) ==
    LET cached == MapGet(fetchedQuotes, candidate.symbol)
        miss == ~cached.found
        isAiRelated == isAiRelatedOf[[title |-> candidate.title,
                                      articleText |-> candidate.articleText]]
    IN  \E fetched \in QuoteResults(candidate.symbol), news \in NewsSentiments :
          LET quote == IF miss THEN fetched ELSE cached
              isSmallCap == IsSmallCap(quote)
          IN  /\ fetchCount' =
                    IF miss
                    THEN MapSet(fetchCount, candidate.symbol,
                                CountOf(fetchCount, candidate.symbol) + 1)
                    ELSE fetchCount
              /\ fetchedQuotes' =
                    IF miss /\ fetched.found
                    THEN MapSet(fetchedQuotes, candidate.symbol, fetched)
                    ELSE fetchedQuotes
              /\ ranked' =
                    IF Unpriced(quote) THEN ranked
                    ELSE IF FailsBothGates(isSmallCap, isAiRelated) THEN ranked
                    ELSE Append(ranked, RankedEntry(candidate, quote, isSmallCap,
                                                    isAiRelated, news))
              /\ ratingCalls' =
                    IF Unpriced(quote) THEN ratingCalls
                    ELSE IF FailsBothGates(isSmallCap, isAiRelated) THEN ratingCalls
                    ELSE Append(ratingCalls, candidate.symbol)

CompareScoreOnly(a, b) == b.score - a.score

\* the comparator of ranked.sort
Compare(a, b) ==
    IF b.score # a.score THEN b.score - a.score
    ELSE IF b.ratings.buy # a.ratings.buy THEN b.ratings.buy - a.ratings.buy
    ELSE OrZero(b.quote.regularMarketChangePercent)
           - OrZero(a.quote.regularMarketChangePercent)

\* stable insertion of x into a list sorted by Compare
RECURSIVE InsertRanked(_, _)
InsertRanked(s, x) ==
    IF s = << >> THEN <<x>>
    ELSE IF Compare(Head(s), x) > 0 THEN <<x>> \o s
         ELSE <<Head(s)>> \o InsertRanked(Tail(s), x)

\* Array.prototype.sort with Compare (a stable sort)
RECURSIVE SortRanked(_)
SortRanked(s) ==
    IF s = << >> THEN << >>
    ELSE InsertRanked(SortRanked(SubSeq(s, 1, Len(s) - 1)), s[Len(s)])

\* Array.prototype.slice(0, n)
Take(s, n) == SubSeq(s, 1, Min(Len(s), IF n < 0 THEN 0 ELSE n))

TopSmallCapsUnlimited(sorted) ==
    LET keep == [x \in {sorted[i] : i \in DOMAIN sorted}
                   |-> x.isSmallCap /\ x.isAiRelated]
    IN  FilterSeq(sorted, keep)

TopSmallCaps(sorted) ==
    LET keep == [x \in {sorted[i] : i \in DOMAIN sorted}
                   |-> x.isSmallCap /\ x.isAiRelated]
    IN  Take(FilterSeq(sorted, keep), DESIRED_SMALL_CAP_COUNT)

OtherCandidatesNeither(sorted) ==
    LET keep == [x \in {sorted[i] : i \in DOMAIN sorted}
                   |-> ~x.isSmallCap /\ ~x.isAiRelated]
    IN  FilterSeq(sorted, keep)

OtherCandidates(sorted) ==
    LET keep == [x \in {sorted[i] : i \in DOMAIN sorted}
                   |-> ~x.isSmallCap \/ ~x.isAiRelated]
    IN  FilterSeq(sorted, keep)

\* the selection of the top picks from the sorted list
SelectTop(sorted) ==
    LET topSmallCaps == TopSmallCaps(sorted)
        topOthers == Take(OtherCandidates(sorted), 5 - Len(topSmallCaps))
    IN  Take(topSmallCaps \o topOthers, 5)

\* one iteration of the loop of rankStocks, called by main
RankNext ==
    /\ pc = "rank"
    /\ candIdx < Len(candidates)
    /\ RankCandidate(candidates[candIdx + 1])
    /\ candIdx' = candIdx + 1
    /\ UNCHANGED <<pc, clock, feedIdx, items, itemIdx, paywallLog, candidates,
                   relevantArticles, topPicks, validTopPicks>>
    /\ UNCHANGED <<symVars, indexVars>>

\* after the loop: sort, select and return
SortAndSelect ==
    /\ ranked' = SortRanked(ranked)
    /\ topPicks' = SelectTop(SortRanked(ranked))
    /\ pc' = "followup"
    /\ UNCHANGED <<clock, feedIdx, items, itemIdx, paywallLog, candidates,
                   relevantArticles, candIdx, fetchedQuotes, fetchCount,
                   validTopPicks>>
    /\ UNCHANGED <<ratingCalls, symVars, indexVars>>

RankReturn ==
    /\ pc = "rank"
    /\ candIdx = Len(candidates)
    /\ SortAndSelect

----------------------------------------------------------------------------
(* main after rankStocks *)

\* for (const pick of topPicks) if (!pick.quote) pick.quote = await fetchQuote(..),
\* then the filter on quote and price, and the call of generateNewsletterHTML
MainFinish ==
    /\ pc = "followup"
    /\ LET missing == {i \in DOMAIN topPicks : ~topPicks[i].quote.found}
       IN  \E fetched \in {f \in [missing -> UNION {QuoteResults(topPicks[i].symbol) : i \in missing}] :
                               \A i \in missing : f[i] \in QuoteResults(topPicks[i].symbol)} :
             LET picks == [i \in DOMAIN topPicks |->
                             IF i \in missing
                             THEN [topPicks[i] EXCEPT !.quote = fetched[i]]
                             ELSE topPicks[i]]
                 keep == [x \in {picks[i] : i \in DOMAIN picks}
                            |-> ~Unpriced(x.quote)]
             IN  /\ topPicks' = picks
                 /\ validTopPicks' = FilterSeq(picks, keep)
                 /\ fetchCount' =
                      [s \in DOMAIN fetchCount \cup {topPicks[i].symbol : i \in missing} |->
                         CountOf(fetchCount, s)
                           + Cardinality({i \in missing : topPicks[i].symbol = s})]
    /\ pc' = "done"
    /\ UNCHANGED <<clock, feedIdx, items, itemIdx, paywallLog, candidates,
                   relevantArticles, candIdx, ranked, fetchedQuotes>>
    /\ UNCHANGED <<ratingCalls, symVars, indexVars>>

----------------------------------------------------------------------------
(* The run of main *)

\* extractSymbols is not being called on its own
SymIdle ==
    /\ inputText = ""
    /\ filteredSymbols = << >>

\* index.js is not running
IndexIdle ==
    /\ ipc = "idle"
    /\ articles = << >>
    /\ tickerIdx = 0
    /\ stockData = << >>
    /\ chosenPicks = << >>
    /\ htmlFile = [written |-> FALSE, picks |-> << >>, articles |-> << >>]
    /\ sheetRead = "none"
    /\ emails = << >>
    /\ recipientsFile = [written |-> FALSE, content |-> ""]
    /\ fatalError = "none"
    /\ exitCode = 0 - 1

Init ==
    /\ SymIdle
    /\ IndexIdle
    /\ ratingCalls = << >>
    /\ pc = "rss"
    /\ clock = ClockStart
    /\ feedIdx = 1
    /\ items = << >>
    /\ itemIdx = 1
    /\ paywallLog = << >>
    /\ candidates = << >>
    /\ relevantArticles = << >>
    /\ candIdx = 0
    /\ ranked = << >>
    /\ fetchedQuotes = EmptyMap
    /\ fetchCount = EmptyMap
    /\ topPicks = << >>
    /\ validTopPicks = << >>

Next ==
    \/ FetchFeed
    \/ RSSReturn
    \/ ProcessItem
    \/ CallRankStocks
    \/ RankNext
    \/ RankReturn
    \/ MainFinish

Spec == Init /\ [][Next]_vars

----------------------------------------------------------------------------
(* rankStocks on its own, called with any list of candidates *)

\* the longest candidate list handed to rankStocks
MaxCandidates == 6

\* candidates as main builds them from the items and article texts above
CandidateSet ==
    { Candidate("ACME", ToItem(RawAcme, ClockStart), "Acme Corp launched strong GPT tools"),
      Candidate("ACME", ToItem(RawNeural, ClockStart), "ACME and AIQ ship neural chips"),
      Candidate("AIQ", ToItem(RawNeural, ClockStart), "ACME and AIQ ship neural chips") }

RankInit ==
    /\ SymIdle
    /\ IndexIdle
    /\ ratingCalls = << >>
    /\ pc = "rank"
    /\ clock = ClockStart
    /\ feedIdx = 1
    /\ items = << >>
    /\ itemIdx = 1
    /\ paywallLog = << >>
    /\ candidates = << >>
    /\ relevantArticles = << >>
    /\ candIdx = 0
    /\ ranked = << >>
    /\ fetchedQuotes = EmptyMap
    /\ fetchCount = EmptyMap
    /\ topPicks = << >>
    /\ validTopPicks = << >>

\* one iteration of the loop of rankStocks, on whatever candidate comes next
RankInput ==
    /\ pc = "rank"
    /\ candIdx < MaxCandidates
    /\ \E candidate \in CandidateSet : RankCandidate(candidate)
    /\ candIdx' = candIdx + 1
    /\ UNCHANGED <<pc, clock, feedIdx, items, itemIdx, paywallLog, candidates,
                   relevantArticles, topPicks, validTopPicks>>
    /\ UNCHANGED <<symVars, indexVars>>

\* the candidate list ends here
RankInputEnd ==
    /\ pc = "rank"
    /\ SortAndSelect

RankStep == RankInput \/ RankInputEnd

SpecRank == RankInit /\ [][RankStep]_vars

----------------------------------------------------------------------------
(* extractSymbols on its own, called with any text *)

\* the pieces the input texts are made of
SymTokens ==
    {"Acme", "ACME", "(XY)", "$AIQ", "Inc.", "AI.", "Xy Co", " ", "LLM",
     "ABCDEF", "b"}

\* the largest number of pieces in an input text
MaxTokens == 3

\* the texts of at most n pieces
RECURSIVE SymTexts(_)
SymTexts(n) ==
    IF n = 0 THEN {""}
    ELSE SymTexts(n - 1) \cup {t \o k : t \in SymTexts(n - 1), k \in SymTokens}

SymInit ==
    /\ pc = "sym"
    /\ inputText \in SymTexts(MaxTokens)
    /\ filteredSymbols = << >>
    /\ IndexIdle
    /\ ratingCalls = << >>
    /\ clock = ClockStart
    /\ feedIdx = 1
    /\ items = << >>
    /\ itemIdx = 1
    /\ paywallLog = << >>
    /\ candidates = << >>
    /\ relevantArticles = << >>
    /\ candIdx = 0
    /\ ranked = << >>
    /\ fetchedQuotes = EmptyMap
    /\ fetchCount = EmptyMap
    /\ topPicks = << >>
    /\ validTopPicks = << >>

\* the call extractSymbols(inputText)
SymCall ==
    /\ pc = "sym"
    /\ \E matches \in NlpMatches(inputText) :
         filteredSymbols' = extractSymbols(inputText, matches)
    /\ pc' = "symdone"
    /\ UNCHANGED <<clock, feedIdx, items, itemIdx, paywallLog, candidates,
                   relevantArticles, candIdx, ranked, fetchedQuotes,
                   fetchCount, topPicks, validTopPicks, ratingCalls,
                   inputText, indexVars>>

SpecSym == SymInit /\ [][SymCall]_vars

----------------------------------------------------------------------------
(* index.js: fetchStockData, selectTop5, getEmailList and the run *)

\* the tickers of fetchStockData
Tickers ==
    <<"AI", "PATH", "PLTR", "UPST", "SOUN", "BBAI", "NVDA", "AMD", "SMCI",
      "GOOGL", "AMZN", "TSLA", "CRWD", "ZS", "SNOW">>

\* the number of tickers of the list that the model runs through
NumTickers == 6

\* What the price request for the k-th ticker can give: 0 when the request
\* fails or the answer holds no price or no market cap (the ticker is
\* skipped), or the market cap.
PriceResults(k) ==
    IF k % 2 = 1 THEN {0, 300000000, 2000000000}
    ELSE {0, 1999999999, 2100000000}

\* the pick pushed for ticker t (the answer holds no shortName)
StockPick(t, cap) ==
    [ticker |-> t, fullName |-> t, marketCap |-> cap]

\* stable insertion of x into a list sorted by market cap, largest first
RECURSIVE InsertByCap(_, _)
InsertByCap(s, x) ==
    IF s = << >> THEN <<x>>
    ELSE IF x.marketCap - Head(s).marketCap > 0 THEN <<x>> \o s
         ELSE <<Head(s)>> \o InsertByCap(Tail(s), x)

\* Array.prototype.sort((a,b) => b.marketCap - a.marketCap)
RECURSIVE SortByCap(_)
SortByCap(s) ==
    IF s = << >> THEN << >>
    ELSE InsertByCap(SortByCap(SubSeq(s, 1, Len(s) - 1)), s[Len(s)])

selectTop5(list) ==
    LET isSmall == [x \in {list[i] : i \in DOMAIN list} |-> x.marketCap < 2000000000]
        isLarge == [x \in {list[i] : i \in DOMAIN list} |-> x.marketCap >= 2000000000]
        smallCaps == FilterSeq(list, isSmall)
        largeCaps == FilterSeq(list, isLarge)
        chosen == Take(SortByCap(smallCaps), 3) \o Take(SortByCap(largeCaps), 2)
    IN  Take(chosen, 5)

\* what fetchFreeArticles can return
ArticleLists ==
    { << >>,
      <<[title |-> "AI chip news", link |-> "u3", preview |-> "Chips are here..."]>> }

\* String.prototype.trim
RECURSIVE Trim(_)
Trim(s) ==
    IF s = "" THEN ""
    ELSE IF SubSeq(s, 1, 1) = " " THEN Trim(SubSeq(s, 2, Len(s)))
    ELSE IF SubSeq(s, Len(s), Len(s)) = " " THEN Trim(SubSeq(s, 1, Len(s) - 1))
    ELSE s

\* Array.prototype.join(",")
RECURSIVE Join(_)
Join(s) ==
    IF s = << >> THEN ""
    ELSE IF Len(s) = 1 THEN s[1]
    ELSE s[1] \o "," \o Join(Tail(s))

\* How the read of the sheet can go: the credential blob does not parse, the
\* client cannot be authorised, the spreadsheet request fails, or the answer
\* arrives, with or without values (each row given by its first cell, ""
\* when the row is empty).
SheetFailures == {"badCredentials", "authError", "apiError"}

SheetResults ==
    { [kind |-> "badCredentials", rows |-> << >>],
      [kind |-> "authError", rows |-> << >>],
      [kind |-> "apiError", rows |-> << >>],
      [kind |-> "ok", rows |-> << >>],
      [kind |-> "ok", rows |-> <<"Email", " ann@x.io ", "", "bob@y.io">>] }

\* getEmailList letting the failure through to its caller
getEmailListRethrow(result) ==
    IF result.kind \in SheetFailures
    THEN [threw |-> TRUE, emails |-> << >>]
    ELSE LET trimmed == [i \in DOMAIN result.rows |-> Trim(result.rows[i])]
             keep == [e \in {trimmed[i] : i \in DOMAIN trimmed}
                        |-> e # "" /\ Includes(e, "@")]
         IN  [threw |-> FALSE, emails |-> FilterSeq(trimmed, keep)]

\* getEmailList, given how the read of the sheet went: whether it threw, and
\* the list it returned
getEmailList(result) ==
    IF result.kind \in SheetFailures
    THEN [threw |-> FALSE, emails |-> << >>]
    ELSE LET trimmed == [i \in DOMAIN result.rows |-> Trim(result.rows[i])]
             keep == [e \in {trimmed[i] : i \in DOMAIN trimmed}
                        |-> e # "" /\ Includes(e, "@")]
         IN  [threw |-> FALSE, emails |-> FilterSeq(trimmed, keep)]

\* the main variables while index.js runs
MainIdle ==
    /\ pc = "idle"
    /\ clock = ClockStart
    /\ feedIdx = 1
    /\ items = << >>
    /\ itemIdx = 1
    /\ paywallLog = << >>
    /\ candidates = << >>
    /\ relevantArticles = << >>
    /\ candIdx = 0
    /\ ranked = << >>
    /\ fetchedQuotes = EmptyMap
    /\ fetchCount = EmptyMap
    /\ topPicks = << >>
    /\ validTopPicks = << >>
    /\ ratingCalls = << >>

mainVars ==
    <<pc, clock, feedIdx, items, itemIdx, paywallLog, candidates,
      relevantArticles, candIdx, ranked, fetchedQuotes, fetchCount, topPicks,
      validTopPicks, ratingCalls>>

IndexInit ==
    /\ MainIdle
    /\ SymIdle
    /\ ipc = "articles"
    /\ articles = << >>
    /\ tickerIdx = 0
    /\ stockData = << >>
    /\ chosenPicks = << >>
    /\ htmlFile = [written |-> FALSE, picks |-> << >>, articles |-> << >>]
    /\ sheetRead = "none"
    /\ emails = << >>
    /\ recipientsFile = [written |-> FALSE, content |-> ""]
    /\ fatalError = "none"
    /\ exitCode = 0 - 1

\* const articles = await fetchFreeArticles()
FetchFreeArticles ==
    /\ ipc = "articles"
    /\ articles' \in ArticleLists
    /\ ipc' = "stock"
    /\ UNCHANGED <<tickerIdx, stockData, chosenPicks, htmlFile, sheetRead,
                   emails, recipientsFile, fatalError, exitCode>>
    /\ UNCHANGED <<mainVars, symVars>>

\* one iteration of the loop of fetchStockData
FetchStockTicker ==
    /\ ipc = "stock"
    /\ tickerIdx < NumTickers
    /\ \E cap \in PriceResults(tickerIdx + 1) :
         stockData' = IF cap = 0 THEN stockData
                      ELSE Append(stockData, StockPick(Tickers[tickerIdx + 1], cap))
    /\ tickerIdx' = tickerIdx + 1
    /\ UNCHANGED <<ipc, articles, chosenPicks, htmlFile, sheetRead, emails,
                   recipientsFile, fatalError, exitCode>>
    /\ UNCHANGED <<mainVars, symVars>>

\* selectTop5, buildEmailHtml, and the write of the newsletter file, which
\* the file system may refuse (wrote = FALSE: mkdirSync or writeFileSync
\* throws, and the catch block exits with 1)
BuildAndWrite ==
    /\ ipc = "stock"
    /\ tickerIdx = NumTickers
    /\ chosenPicks' = selectTop5(stockData)
    /\ \E wrote \in BOOLEAN :
         IF wrote
         THEN /\ htmlFile' = [written |-> TRUE, picks |-> selectTop5(stockData),
                              articles |-> articles]
              /\ ipc' = "sheet"
              /\ UNCHANGED <<fatalError, exitCode>>
         ELSE /\ fatalError' = "fs"
              /\ exitCode' = 1
              /\ ipc' = "exit"
              /\ UNCHANGED htmlFile
    /\ UNCHANGED <<articles, tickerIdx, stockData, sheetRead, emails,
                   recipientsFile>>
    /\ UNCHANGED <<mainVars, symVars>>

\* const emails = await getEmailList()
ReadSheet ==
    /\ ipc = "sheet"
    /\ \E result \in SheetResults :
         LET r == getEmailList(result)
         IN  /\ sheetRead' = result.kind
             /\ IF r.threw
                THEN /\ fatalError' = "sheet"
                     /\ exitCode' = 1
                     /\ ipc' = "exit"
                     /\ UNCHANGED emails
                ELSE /\ emails' = r.emails
                     /\ ipc' = "recipients"
                     /\ UNCHANGED <<fatalError, exitCode>>
    /\ UNCHANGED <<articles, tickerIdx, stockData, chosenPicks, htmlFile,
                   recipientsFile>>
    /\ UNCHANGED <<mainVars, symVars>>

\* fs.writeFileSync("output/recipients.txt", emails.join(",")), and the end
\* of the run
WriteRecipients ==
    /\ ipc = "recipients"
    /\ \E wrote \in BOOLEAN :
         IF wrote
         THEN /\ recipientsFile' = [written |-> TRUE, content |-> Join(emails)]
              /\ exitCode' = 0
              /\ ipc' = "done"
              /\ UNCHANGED fatalError
         ELSE /\ fatalError' = "fs"
              /\ exitCode' = 1
              /\ ipc' = "exit"
              /\ UNCHANGED recipientsFile
    /\ UNCHANGED <<articles, tickerIdx, stockData, chosenPicks, htmlFile,
                   sheetRead, emails>>
    /\ UNCHANGED <<mainVars, symVars>>

IndexNext ==
    \/ FetchFreeArticles
    \/ FetchStockTicker
    \/ BuildAndWrite
    \/ ReadSheet
    \/ WriteRecipients

SpecIndex == IndexInit /\ [][IndexNext]_vars

----------------------------------------------------------------------------
(* Properties *)

\* an entry that is both small-cap and AI-related, by the flags rankStocks set
BothFlags(x) == x.isSmallCap /\ x.isAiRelated

\* the positions of s whose entry has both flags
BothPositions(s) == {i \in DOMAIN s : BothFlags(s[i])}

\* the positions of s whose entry lacks one of the flags
OtherPositions(s) == {i \in DOMAIN s : ~BothFlags(s[i])}

\* rankStocks has returned (ranked is then the sorted list)
Returned == pc \in {"followup", "done"}

\* C1: fetchQuote is called at most once per symbol during one run, whatever
\* the first call returned and however many candidates carry the symbol.
C1_FetchedAtMostOnce == \A s \in DOMAIN fetchCount : fetchCount[s] <= 1

\* C2: the list rankStocks returns has at most 5 picks, and at most
\* DESIRED_SMALL_CAP_COUNT of them are both small-cap and AI-related.
C2_AtMostFivePicks ==
    Returned =>
        /\ Len(topPicks) <= 5
        /\ Cardinality(BothPositions(topPicks)) <= DESIRED_SMALL_CAP_COUNT

\* rankStocks returned 5 picks, 3 of them with both flags, out of more than
\* 5 ranked candidates of which more than 3 had both flags
C2_Witness ==
    /\ Returned
    /\ Len(ranked) > 5
    /\ Cardinality(BothPositions(ranked)) > DESIRED_SMALL_CAP_COUNT
    /\ Len(topPicks) = 5
    /\ Cardinality(BothPositions(topPicks)) = DESIRED_SMALL_CAP_COUNT

\* the i-th position (in increasing order) of the set of positions P
NthPosition(P, i) == CHOOSE p \in P : Cardinality({q \in P : q <= p}) = i

\* the ranked candidates left once the first n with both flags are taken
NotYetTaken(s, n) ==
    LET taken == {p \in BothPositions(s) :
                    Cardinality({q \in BothPositions(s) : q <= p}) <= n}
        rest == DOMAIN s \ taken
    IN  [i \in 1..Cardinality(rest) |-> s[NthPosition(rest, i)]]

\* C3 as stated: after up to DESIRED_SMALL_CAP_COUNT top-ranked candidates
\* with both flags, the slots up to 5 are filled in rank order from all ranked
\* candidates not yet taken, so k ranked candidates give min(5, k) picks.
C3_FilledFromAllRanked ==
    Returned =>
        LET n == Min(Cardinality(BothPositions(ranked)), DESIRED_SMALL_CAP_COUNT)
            rest == NotYetTaken(ranked, n)
        IN  /\ Len(topPicks) = Min(5, Len(ranked))
            /\ \A i \in 1..Len(topPicks) :
                  i > n => topPicks[i] = rest[i - n]

\* C3 as amended: after up to DESIRED_SMALL_CAP_COUNT top-ranked candidates
\* with both flags, the slots up to 5 are filled in rank order from the
\* ranked candidates that lack one of the flags; with s of the k ranked
\* candidates having both flags, the result has
\* min(s, 3) + min(k - s, 5 - min(s, 3)) picks.
C3_FilledFromOthers ==
    Returned =>
        LET both == BothPositions(ranked)
            others == OtherPositions(ranked)
            n == Min(Cardinality(both), DESIRED_SMALL_CAP_COUNT)
            m == Min(Cardinality(others), 5 - n)
        IN  /\ Len(topPicks) = n + m
            /\ \A i \in 1..n : topPicks[i] = ranked[NthPosition(both, i)]
            /\ \A i \in 1..m : topPicks[n + i] = ranked[NthPosition(others, i)]

\* rankStocks returned fewer than min(5, k) picks: more candidates with both
\* flags were ranked than are taken, and the others did not fill the 5 slots
C3_Witness ==
    /\ Returned
    /\ Cardinality(BothPositions(ranked)) > DESIRED_SMALL_CAP_COUNT
    /\ Cardinality(OtherPositions(ranked)) >= 1
    /\ Len(topPicks) < Min(5, Len(ranked))
    /\ ~BothFlags(topPicks[Len(topPicks)])

\* a quote that is there and whose price is a number above 0
PositivePrice(quote) ==
    /\ quote.found
    /\ quote.regularMarketPrice.t = "num"
    /\ quote.regularMarketPrice.v > 0

\* C4: every ranked candidate, every pick rankStocks returns and every pick
\* main hands to the renderer carries a quote with a price above 0.
C4_PicksHavePositivePrice ==
    /\ \A i \in DOMAIN ranked : PositivePrice(ranked[i].quote)
    /\ \A i \in DOMAIN topPicks : PositivePrice(topPicks[i].quote)
    /\ \A i \in DOMAIN validTopPicks : PositivePrice(validTopPicks[i].quote)

\* a comes no later than b in the order (score descending, buy count
\* descending, change percent descending); an absent change percent counts 0
InRankOrder(a, b) ==
    \/ a.score > b.score
    \/ /\ a.score = b.score
       /\ \/ a.ratings.buy > b.ratings.buy
          \/ /\ a.ratings.buy = b.ratings.buy
             /\ OrZero(a.quote.regularMarketChangePercent)
                  >= OrZero(b.quote.regularMarketChangePercent)

keywordPresentOf ==
    [a \in ModelArticles |->
        HasKeyword(ToLowerCase(a.title)) \/ HasKeyword(ToLowerCase(a.articleText))]

\* C6: a ranked candidate is flagged AI-related if and only if a keyword of
\* KEYWORDS occurs in its title or its article text.
C6_AiRelatedIffKeyword ==
    \A i \in DOMAIN ranked :
        ranked[i].isAiRelated <=>
            keywordPresentOf[[title |-> ranked[i].title,
                              articleText |-> ranked[i].articleText]]

\* C7: when main is done, an article from which symbols were extracted and
\* none of whose symbols got a quote has no pick among the picks rendered and
\* is in the list of other relevant articles.
C7_UnquotedArticleListed ==
    pc = "done" =>
        \A link \in {candidates[i].link : i \in DOMAIN candidates} :
            (\A i \in DOMAIN candidates :
                candidates[i].link = link
                    => candidates[i].symbol \notin DOMAIN fetchedQuotes)
            => /\ \A j \in DOMAIN validTopPicks : validTopPicks[j].link # link
               /\ \E j \in DOMAIN relevantArticles : relevantArticles[j].link = link

\* C8: every item fetchRSSItems collects has an inclusion keyword in its
\* title or snippet and no exclusion keyword in its title nor in its snippet.
C8_ItemsMatchKeywords ==
    \A i \in DOMAIN items :
        LET title == ToLowerCase(items[i].title)
            snippet == ToLowerCase(items[i].contentSnippet)
        IN  /\ HasKeyword(title) \/ HasKeyword(snippet)
            /\ ~HasIgnore(title)
            /\ ~HasIgnore(snippet)

\* C9: the list fetchRSSItems returns is ordered by publish date descending,
\* and an item whose publish date could not be parsed comes before every item
\* whose valid date is earlier than the time of the run.
C9_NewestFirst ==
    pc # "rss" =>
        \A i, j \in DOMAIN items :
            /\ (i < j /\ items[i].pubDate.t = "time" /\ items[j].pubDate.t = "time")
                  => items[i].pubDate.v >= items[j].pubDate.v
            /\ (items[i].pubDate.t = "nan" /\ items[j].pubDate.t = "time"
                  /\ items[j].pubDate.v < ClockStart)
                  => i < j

\* C10: a step of the item loop whose paywall check failed to fetch or parse
\* the page adds no candidate and no relevant article, and the loop goes on
\* with the next item.
C10_FailedCheckSkips ==
    [][ (/\ pc = "items"
         /\ Len(paywallLog') = Len(paywallLog) + 1
         /\ paywallLog'[Len(paywallLog')] = "failed")
        => /\ candidates' = candidates
           /\ relevantArticles' = relevantArticles
           /\ itemIdx' = itemIdx + 1
           /\ pc' = "items" ]_vars

\* the paywall check of one item failed, that item added nothing, and a
\* later item was processed and gave a candidate
C10_Witness ==
    \E i \in DOMAIN paywallLog :
        /\ paywallLog[i] = "failed"
        /\ \A k \in DOMAIN candidates : candidates[k].link # items[i].link
        /\ \A k \in DOMAIN relevantArticles : relevantArticles[k].link # items[i].link
        /\ \E j \in DOMAIN paywallLog :
              /\ j > i
              /\ paywallLog[j] = "clear"
              /\ \E k \in DOMAIN candidates : candidates[k].link = items[j].link

\* the words extractSymbols filters out at the end, as the claim lists them
FixedStopwords ==
    {"AI", "ML", "LLM", "GPT", "COM", "NET", "ORG", "CO", "INC", "LTD",
     "INC.", "LTD.", "AI.", "ML."}

\* C11: every symbol in the result of extractSymbols has length 2 to 5, is
\* uppercase and is not in the fixed stopword list, and the result holds no
\* symbol twice.
C11_SymbolsWellFormed ==
    pc = "symdone" =>
        /\ \A i \in DOMAIN filteredSymbols :
             /\ Len(filteredSymbols[i]) >= 2
             /\ Len(filteredSymbols[i]) <= 5
             /\ ToUpperCase(filteredSymbols[i]) = filteredSymbols[i]
             /\ filteredSymbols[i] \notin FixedStopwords
        /\ \A i, j \in DOMAIN filteredSymbols :
             filteredSymbols[i] = filteredSymbols[j] => i = j

\* a call that returned two symbols for a text that holds a symbol in two
\* spellings, a stopword and a punctuated stopword
C11_Witness ==
    /\ pc = "symdone"
    /\ Len(filteredSymbols) >= 1
    /\ \E i \in DOMAIN filteredSymbols : filteredSymbols[i] = "ACME"
    /\ Includes(inputText, "Acme")
    /\ Includes(inputText, "ACME")
    /\ \/ Includes(inputText, "Inc.")
       \/ Includes(inputText, "LLM")

\* the change percent of a quote, 0 when it is absent
ChangeOrZero(quote) ==
    IF quote.regularMarketChangePercent.t = "num"
    THEN quote.regularMarketChangePercent.v ELSE 0

\* C12: the score of every ranked candidate equals 40 if small-cap + 20 if
\* AI-related + 15 times its buy count + 3 times its hold count + 25 times
\* its sentiment + 4 times its quote's change percent (0 when absent); the
\* sell count has no part in it.
C12_ScoreFormula ==
    \A i \in DOMAIN ranked :
        LET x == ranked[i]
            small == IF x.isSmallCap THEN 40 ELSE 0
            ai == IF x.isAiRelated THEN 20 ELSE 0
        IN  x.score = small + ai + 15 * x.ratings.buy + 3 * x.ratings.hold
                        + 25 * x.sentiment + 4 * ChangeOrZero(x.quote)

\* ranked holds a candidate without a change percent, and a candidate with
\* sell ratings, a sentiment and a negative change percent
C12_Witness ==
    /\ \E i \in DOMAIN ranked :
         /\ ranked[i].quote.regularMarketChangePercent.t = "undef"
         /\ ranked[i].score > 0
    /\ \E i \in DOMAIN ranked :
         /\ ranked[i].ratings.sell > 0
         /\ ranked[i].sentiment # 0
         /\ ChangeOrZero(ranked[i].quote) < 0

\* a market cap within [50,000,000, 2,000,000,000], both ends included
CapInRange(quote) ==
    /\ quote.marketCap.t = "num"
    /\ 50000000 <= quote.marketCap.v
    /\ quote.marketCap.v <= 2000000000

\* the number of entries of s that satisfy test
CountIn(s, test(_)) == Cardinality({i \in DOMAIN s : test(s[i])})

\* C13: every pick rankStocks returns is small-cap (market cap within
\* [50,000,000, 2,000,000,000]) or AI-related, and ratings and sentiment are
\* looked up only for the candidates that are ranked: a candidate failing
\* both gates is skipped before any lookup.
C13_PicksPassAGate ==
    /\ \A i \in DOMAIN topPicks :
         LET x == topPicks[i]
         IN  /\ x.isSmallCap <=> CapInRange(x.quote)
             /\ \/ CapInRange(x.quote)
                \/ /\ x.isAiRelated
                   /\ keywordPresentOf[[title |-> x.title,
                                        articleText |-> x.articleText]]
    /\ \A i \in DOMAIN ranked :
         CapInRange(ranked[i].quote) \/ ranked[i].isAiRelated
    /\ Len(ratingCalls) = Len(ranked)
    /\ \A k \in DOMAIN ratingCalls :
         LET IsCall(c) == c = ratingCalls[k]
             IsEntry(x) == x.symbol = ratingCalls[k]
         IN  CountIn(ratingCalls, IsCall) = CountIn(ranked, IsEntry)

\* rankStocks returned after two candidates: one with a market cap of exactly
\* 50,000,000 that was picked, and one with a price and a market cap below the
\* range that was not ranked and for which nothing was looked up
C13_Witness ==
    /\ pc = "followup"
    /\ candIdx = 2
    /\ Len(topPicks) = 1
    /\ topPicks[1].symbol = "AIQ"
    /\ topPicks[1].quote.marketCap = Num(50000000)
    /\ topPicks[1].isSmallCap
    /\ "ACME" \in DOMAIN fetchedQuotes
    /\ Truthy(fetchedQuotes["ACME"].regularMarketPrice)
    /\ fetchedQuotes["ACME"].marketCap = Num(49999999)
    /\ ratingCalls = <<"AIQ">>

\* C16: the picks main hands to the renderer never hold the same ticker
\* symbol twice.
C16_NoDuplicateTickers ==
    pc = "done" =>
        \A i, j \in DOMAIN validTopPicks :
            validTopPicks[i].symbol = validTopPicks[j].symbol => i = j

\* the number of picks of s with a market cap below 2,000,000,000
SmallCapCount(s) ==
    Cardinality({i \in DOMAIN s : s[i].marketCap < 2000000000})

\* selectTop5 has been called on stockData
Selected == ipc \in {"sheet", "recipients", "done", "exit"}

\* C14: for every list of at least 5 picks of which at least 3 have a market
\* cap below 2,000,000,000, selectTop5 returns exactly 5 picks of which at
\* least 3 are small-caps.
C14_FivePicksThreeSmall ==
    Selected /\ Len(stockData) >= 5 /\ SmallCapCount(stockData) >= 3 =>
        Len(chosenPicks) = 5 /\ SmallCapCount(chosenPicks) >= 3

\* the read of the subscriber list failed
SheetFailed == sheetRead \in {"badCredentials", "authError", "apiError"}

\* C15: when the read of the subscriber list fails, getEmailList returns an
\* empty list and the failure is not fatal: the newsletter file is already
\* written, the recipients file is written with an empty list, and the
\* process exits with a non-zero code only if that last write itself fails.
C15_SheetFailureNotFatal ==
    SheetFailed =>
        /\ emails = << >>
        /\ htmlFile.written
        /\ fatalError \in {"none", "fs"}
        /\ ipc \in {"recipients", "done", "exit"}
        /\ ipc = "done" =>
             recipientsFile = [written |-> TRUE, content |-> ""] /\ exitCode = 0
        /\ ipc = "exit" => fatalError = "fs" /\ ~recipientsFile.written
        /\ exitCode = 1 => fatalError = "fs"

\* a run that ended with exit code 0 after the spreadsheet request failed
C15_Witness ==
    /\ ipc = "done"
    /\ sheetRead = "apiError"
    /\ exitCode = 0
    /\ htmlFile.written
    /\ Len(htmlFile.picks) > 0
    /\ recipientsFile.written

====
